---- MODULE Spec2Model ----
(***************************************************************************)
(* Oriel Cornerstone 260 monochromator driver (class Monochromator of      *)
(* monochromator.ipynb).  The driver owns a pyserial port (self._com) and  *)
(* builds every operation from write() and read().  Strings are sequences  *)
(* of one-character strings; what goes over the wire is a sequence of      *)
(* byte values.  A call runs step by step: one step per call of            *)
(* self._com.write / self._com.read_until, so that the order of the        *)
(* Transport calls and the lines each read returns are part of the state.  *)
(***************************************************************************)
EXTENDS Integers, Sequences, FiniteSets, TLC

VARIABLES
    open,       \* self._com.is_open: the serial port is open
    rx,         \* lines that have arrived in the port's input buffer, unread
    dev,        \* lines the device has emitted that have not arrived yet
    pc,         \* the caller: "idle", "run" (inside a method) or "done"
    op,         \* the method call in progress, or the last one made
    prog,       \* what the call in progress has left to do
    io,         \* the Transport calls made by that call, in order
    wire,       \* the byte strings that call handed to self._com.write
    reads,      \* what each read() of that call returned
    result,     \* how the call ended: a value, or the exception raised
    clean,      \* history: no read has timed out and no raw write/read was made
    qa, qb,     \* framing comparison: two query messages
    fa, fb,     \* framing comparison: the bytes each query wrote
    stub,       \* stub device: the grating it was last told to use
    prev,       \* history: the call made before `op`, and how it ended
    life,       \* history: the most recent life-cycle call
    closes,     \* history: how many times self._com.close() was called
    lag,        \* history: the device lines unread when `op` was called
    other,      \* a second caller (thread) using the same Monochromator
    bus         \* history: who made each Transport call, in order

vars == <<open, rx, dev, pc, op, prog, io, wire, reads, result, clean, qa, qb, fa, fb,
          stub, prev, life, closes, lag, other, bus>>

-----------------------------------------------------------------------------
(* Bounds *)

\* Longest message drawn for the framing comparison.
MaxLen == 3

\* Most device lines that may be left unread when a call ends.
MaxSkew == 1

\* Most disconnect() calls followed in the life of one Monochromator.
MaxCloses == 2

-----------------------------------------------------------------------------
(* Characters, str.upper(), str.encode('utf-8') / bytes.decode('utf-8')     *)

LowerL == <<"a","b","c","d","e","f","g","h","i","j","k","l","m",
            "n","o","p","q","r","s","t","u","v","w","x","y","z">>
UpperL == <<"A","B","C","D","E","F","G","H","I","J","K","L","M",
            "N","O","P","Q","R","S","T","U","V","W","X","Y","Z">>
DigitL == <<"0","1","2","3","4","5","6","7","8","9">>

Range(s) == {s[i] : i \in DOMAIN s}

Lowers == Range(LowerL)
Uppers == Range(UpperL)
Digits == Range(DigitL)

\* the characters the driver and the device exchange
Chars == Lowers \cup Uppers \cup Digits \cup {" ", "\t", "\n", "\r", ",", "-", ".", "?"}

IndexOf(s, c) == CHOOSE i \in DOMAIN s : s[i] = c

IsLower(c) == c \in Lowers
IsDigit(c) == c \in Digits

\* str.upper() on one character, and on a string
UpperTable == [c \in Chars |-> IF IsLower(c) THEN UpperL[IndexOf(LowerL, c)] ELSE c]

UpperChar(c) == UpperTable[c]

Upper(s) == [i \in DOMAIN s |-> UpperChar(s[i])]

\* the UTF-8 byte of an ASCII character
OrdTable ==
    [c \in Chars |->
        CASE c \in Uppers -> 64 + IndexOf(UpperL, c)
          [] c \in Lowers -> 96 + IndexOf(LowerL, c)
          [] c \in Digits -> 47 + IndexOf(DigitL, c)
          [] c = " "  -> 32
          [] c = "\t" -> 9
          [] c = "\n" -> 10
          [] c = "\r" -> 13
          [] c = ","  -> 44
          [] c = "-"  -> 45
          [] c = "."  -> 46
          [] c = "?"  -> 63]

Ord(c) == OrdTable[c]

Bytes == {OrdTable[c] : c \in Chars}

ChrTable == [b \in Bytes |-> CHOOSE c \in Chars : OrdTable[c] = b]

Chr(b) == ChrTable[b]

Encode(s) == [i \in DOMAIN s |-> Ord(s[i])]
Decode(bs) == [i \in DOMAIN bs |-> Chr(bs[i])]

\* self.term_chars = '\r\n'
term_chars == <<"\r", "\n">>

Whitespace == {" ", "\t", "\n", "\r"}

\* str.rstrip()
RECURSIVE rstrip(_)
rstrip(s) ==
    IF s # <<>> /\ s[Len(s)] \in Whitespace
    THEN rstrip(SubSeq(s, 1, Len(s) - 1))
    ELSE s

\* str.lstrip(), as float() and int() do before they parse
RECURSIVE lstrip(_)
lstrip(s) ==
    IF s # <<>> /\ s[1] \in Whitespace THEN lstrip(Tail(s)) ELSE s

\* sep.join( parts )
RECURSIVE join(_, _)
join(sep, parts) ==
    IF parts = <<>> THEN <<>>
    ELSE IF Len(parts) = 1 THEN parts[1]
    ELSE parts[1] \o sep \o join(sep, Tail(parts))

\* str( n ) of an integer
RECURSIVE NatStr(_)
NatStr(n) == IF n < 10 THEN <<DigitL[n + 1]>> ELSE NatStr(n \div 10) \o <<DigitL[(n % 10) + 1]>>

IntStr(n) == IF n < 0 THEN <<"-">> \o NatStr(-n) ELSE NatStr(n)

\* '{:.3f}'.format( wavelength ), the wavelength given in thousandths of a nm
Format3f(milli) ==
    LET f == milli % 1000
    IN  NatStr(milli \div 1000) \o <<".">> \o
        <<DigitL[(f \div 100) + 1], DigitL[((f \div 10) % 10) + 1], DigitL[(f % 10) + 1]>>

\* An argument of command(): a string or an integer; str( arg ) is its text.
StrArg(s) == [t |-> "str", s |-> s, n |-> 0]
IntArg(n) == [t |-> "int", s |-> <<>>, n |-> n]
NoneArg   == [t |-> "none", s |-> <<>>, n |-> 0]

str(a) ==
    CASE a.t = "str"  -> a.s
      [] a.t = "int"  -> IntStr(a.n)
      [] a.t = "none" -> <<"N","o","n","e">>

\* float( s ) and int( s ): the value (floats in thousandths), or ValueError.
\* Decimal literals only: digits, and for float at most three decimals.
AllDigits(s) == s # <<>> /\ \A i \in DOMAIN s : IsDigit(s[i])

RECURSIVE DigitsVal(_)
DigitsVal(s) ==
    IF s = <<>> THEN 0
    ELSE 10 * DigitsVal(SubSeq(s, 1, Len(s) - 1)) + (IndexOf(DigitL, s[Len(s)]) - 1)

Pad3(s) == s \o SubSeq(<<"0","0","0">>, 1, 3 - Len(s))

int(s0) ==
    LET s == rstrip(lstrip(s0))
    IN  IF AllDigits(s) THEN [ok |-> TRUE, n |-> DigitsVal(s)]
        ELSE [ok |-> FALSE, n |-> 0]

float(s0) ==
    LET s    == rstrip(lstrip(s0))
        dots == {i \in DOMAIN s : s[i] = "."}
    IN  IF AllDigits(s) THEN [ok |-> TRUE, n |-> 1000 * DigitsVal(s)]
        ELSE IF Cardinality(dots) = 1
        THEN LET d == CHOOSE i \in dots : TRUE
                 w == SubSeq(s, 1, d - 1)
                 f == SubSeq(s, d + 1, Len(s))
             IN  IF AllDigits(w) /\ AllDigits(f) /\ Len(f) <= 3
                 THEN [ok |-> TRUE, n |-> 1000 * DigitsVal(w) + DigitsVal(Pad3(f))]
                 ELSE [ok |-> FALSE, n |-> 0]
        ELSE [ok |-> FALSE, n |-> 0]

-----------------------------------------------------------------------------
(* The methods of class Monochromator.  A method is modelled by two          *)
(* operators: the Transport calls it makes, in order (named as the method),  *)
(* and the value it returns from what its reads gave (named <method>_ret).   *)

S(k, data, err) == [k |-> k, data |-> data, err |-> err]

\* self._com.write( msg )
WriteStep(bytes) == S("write", bytes, "")
\* self._com.read_until( b'\r\n' )
ReadStep == S("read", <<>>, "")
\* an exception raised by the method's own code
RaiseStep(e) == S("raise", <<>>, e)

\* Values and exceptions a method ends with.
V(err, t, s, s2, n, b) == [err |-> err, t |-> t, s |-> s, s2 |-> s2, n |-> n, b |-> b]
VNone        == V("", "none", <<>>, <<>>, 0, FALSE)
VStr(s)      == V("", "str", s, <<>>, 0, FALSE)
VInt(n)      == V("", "int", <<>>, <<>>, n, FALSE)
VFloat(n)    == V("", "float", <<>>, <<>>, n, FALSE)
VBool(b)     == V("", "bool", <<>>, <<>>, 0, b)
Raised(e)    == V(e, "none", <<>>, <<>>, 0, FALSE)
\* Response = namedtuple( 'Response', [ 'statement', 'response' ] )
Response(statement, response) == V("", "Response", statement, response, 0, FALSE)

\* the text the i-th read() of the call returned
Text(rs, i) == IF i \in DOMAIN rs THEN rs[i].text ELSE <<>>

\* write() that forgets msg.upper()
write_as_given(msg) ==
    <<WriteStep(Encode(msg \o term_chars))>>

\* def write( self, msg )
write(msg) ==
    LET m1 == msg \o term_chars
        m2 == Upper(m1)
        m3 == Encode(m2)
    IN  <<WriteStep(m3)>>

\* write() returns what self._com.write returned
write_ret(calls) ==
    IF calls # <<>> THEN VInt(calls[Len(calls)].n) ELSE VNone

\* def read( self )
read == <<ReadStep>>

read_ret(rs) == VStr(Text(rs, Len(rs)))

\* command() that writes and does not read the device's line
command_no_read(cmd, args) ==
    write(cmd \o <<" ">> \o join(<<" ">>, [i \in DOMAIN args |-> str(args[i])]))

\* def command( self, cmd, *args )
command(cmd, args) ==
    LET sargs == [i \in DOMAIN args |-> str(args[i])]
        msg   == cmd \o <<" ">> \o join(<<" ">>, sargs)
    IN  write(msg) \o read

command_ret(rs) == VStr(rstrip(Text(rs, Len(rs))))

\* query() that reads one line only
query_reads_once(msg) ==
    IF msg = <<>> THEN <<RaiseStep("IndexError")>>
    ELSE LET m == IF msg[Len(msg)] # "?" THEN msg \o <<"?">> ELSE msg
         IN  write(m) \o read

\* query() that sends msg without adding the '?'
query_as_given(msg) ==
    IF msg = <<>> THEN <<RaiseStep("IndexError")>>
    ELSE write(msg) \o read \o read

\* def query( self, msg ); msg[ -1 ] of the empty string raises IndexError
query(msg) ==
    IF msg = <<>> THEN <<RaiseStep("IndexError")>>
    ELSE LET m == IF msg[Len(msg)] # "?" THEN msg \o <<"?">> ELSE msg
         IN  write(m) \o read \o read

\* the Response of a query whose reads follow the first `base` reads of the call
query_ret(rs, base) ==
    LET statement == rstrip(Text(rs, base + 1))
        response  == rstrip(Text(rs, base + 2))
    IN  Response(statement, response)

\* def info( self )
info == query(<<"i","n","f","o">>)

info_ret(rs) == VStr(query_ret(rs, 0).s2)

\* def position( self )
position == query(<<"w","a","v","e">>)

position_ret(rs, base) ==
    LET resp == query_ret(rs, base).s2
        f    == float(resp)
    IN  IF f.ok THEN VFloat(f.n) ELSE Raised("ValueError")

\* goto() that does not read the position back
goto_no_readback(wavelength) ==
    command(<<"g","o","w","a","v","e">>, <<StrArg(Format3f(wavelength))>>)

\* def goto( self, wavelength ), the wavelength in thousandths of a nm
goto(wavelength) ==
    command(<<"g","o","w","a","v","e">>, <<StrArg(Format3f(wavelength))>>) \o position

goto_ret(rs) == position_ret(rs, 1)

\* def abort( self )
abort == command(<<"a","b","o","r","t">>, <<>>)

abort_ret == VNone

\* def grating( self ): Response has no attribute 'split'
grating == query(<<"g","r","a","t">>)

grating_ret(rs) == Raised("AttributeError")

\* def set_grating( self, grating )
set_grating(g) == command(<<"g","r","a","t">>, <<StrArg(str(IntArg(g)))>>)

set_grating_ret == VNone

\* def shuttered( self )
shuttered == query(<<"s","h","u","t","t","e","r">>)

\* shuttered() that compares without regard to case
shuttered_ret_any_case(rs) == VBool(Upper(query_ret(rs, 0).s2) = <<"C">>)

shuttered_ret(rs) == VBool(query_ret(rs, 0).s2 = <<"C">>)

\* def shutter( self, close = True )
shutter(close) ==
    LET cmd == IF close THEN <<"C">> ELSE <<"O">>
    IN  command(<<"s","h","u","t","t","e","r">>, <<StrArg(cmd)>>)

shutter_ret == VNone

\* outport() that parses the first line it reads and fails on it before the second read
outport_parses_echo ==
    write(<<"o","u","t","p","o","r","t","?">>) \o read \o <<RaiseStep("ValueError")>>

\* def outport( self )
outport == query(<<"o","u","t","p","o","r","t">>)

outport_ret(rs) ==
    LET i == int(query_ret(rs, 0).s2)
    IN  IF i.ok THEN VInt(i.n) ELSE Raised("ValueError")

\* def set_outport( self, port )
set_outport(port) == command(<<"o","u","t","p","o","r","t">>, <<StrArg(str(IntArg(port)))>>)

set_outport_ret == VNone

\* 'slit{}microns'.format( slit )
SlitCmd(slit) == <<"s","l","i","t">> \o str(IntArg(slit)) \o <<"m","i","c","r","o","n","s">>

\* slit_width() that tests `if width:` and so takes a width of 0 for None
slit_width_if_truthy(slit, width) ==
    LET cmd == SlitCmd(slit)
        set == IF width.t # "none" /\ width.n # 0
               THEN command(cmd, <<StrArg(str(width))>>) ELSE <<>>
    IN  set \o query(cmd)

\* def slit_width( self, slit, width = None )
slit_width(slit, width) ==
    LET cmd == SlitCmd(slit)
        set == IF width.t # "none" THEN command(cmd, <<StrArg(str(width))>>) ELSE <<>>
    IN  set \o query(cmd)

slit_width_ret(rs, width) ==
    LET i == int(query_ret(rs, IF width.t # "none" THEN 1 ELSE 0).s2)
    IN  IF i.ok THEN VInt(i.n) ELSE Raised("ValueError")

-----------------------------------------------------------------------------
(* Calls and their inputs *)

Call(name, s, args, n, w, b) ==
    [name |-> name, s |-> s, args |-> args, n |-> n, w |-> w, b |-> b]

C0(name) == Call(name, <<>>, <<>>, 0, NoneArg, FALSE)

\* Messages given to write() and query() directly.
RawMsgs ==
    { <<>>, <<"w","a","v","e">>, <<"W","A","V","E","?">>, <<"a"," ","b">>, <<"G","o","?">> }

\* Command names and argument lists given to command() directly.
RawCommands ==
    { <<<<"a","b","o","r","t">>, <<>>>>,
      <<<<"g","r","a","t">>, <<IntArg(2)>>>>,
      <<<<"a">>, <<StrArg(<<"b">>), IntArg(1)>>>> }

Wavelengths == {600000, 550500}
Gratings    == {1, 2}
Ports       == {1}
Slits       == {1, 2}
Widths      == {NoneArg, IntArg(0), IntArg(50)}

\* The high-level methods.
HighLevel ==
    {"info", "position", "goto", "abort", "grating", "set_grating", "shuttered",
     "shutter", "outport", "set_outport", "slit_width"}

\* The Transport calls of a call, in order.
Program(c) ==
    CASE c.name = "write"       -> write(c.s)
      [] c.name = "read"        -> read
      [] c.name = "command"     -> command(c.s, c.args)
      [] c.name = "query"       -> query(c.s)
      [] c.name = "info"        -> info
      [] c.name = "position"    -> position
      [] c.name = "goto"        -> goto(c.n)
      [] c.name = "abort"       -> abort
      [] c.name = "grating"     -> grating
      [] c.name = "set_grating" -> set_grating(c.n)
      [] c.name = "shuttered"   -> shuttered
      [] c.name = "shutter"     -> shutter(c.b)
      [] c.name = "outport"     -> outport
      [] c.name = "set_outport" -> set_outport(c.n)
      [] c.name = "slit_width"  -> slit_width(c.n, c.w)

\* What a call that ran to its end returns (or raises after its last read).
ReturnOf(c, calls, rs) ==
    CASE c.name = "write"       -> write_ret(calls)
      [] c.name = "read"        -> read_ret(rs)
      [] c.name = "command"     -> command_ret(rs)
      [] c.name = "query"       -> query_ret(rs, 0)
      [] c.name = "info"        -> info_ret(rs)
      [] c.name = "position"    -> position_ret(rs, 0)
      [] c.name = "goto"        -> goto_ret(rs)
      [] c.name = "abort"       -> abort_ret
      [] c.name = "grating"     -> grating_ret(rs)
      [] c.name = "set_grating" -> set_grating_ret
      [] c.name = "shuttered"   -> shuttered_ret(rs)
      [] c.name = "shutter"     -> shutter_ret
      [] c.name = "outport"     -> outport_ret(rs)
      [] c.name = "set_outport" -> set_outport_ret
      [] c.name = "slit_width"  -> slit_width_ret(rs, c.w)

-----------------------------------------------------------------------------
(* The device at the other end of the serial line: it answers a frame that   *)
(* ends in '?' with two lines, the echo of the frame and then a value, and   *)
(* any other frame with one line, the echo of the frame.                     *)

\* Values the device may report.
DevValues ==
    { <<"5","9","9",".","9","8","4">>, <<"5","0">>, <<"C">> }

Line(bytes, kind) == [bytes |-> bytes, kind |-> kind, own |-> TRUE]

IsQueryFrame(frame) ==
    LET text == Decode(frame)
        n    == Len(text)
    IN  n >= 3 /\ text[n - 2] = "?"

LinesFor(frame) == IF IsQueryFrame(frame) THEN 2 ELSE 1

DeviceAnswers(frame) ==
    IF IsQueryFrame(frame)
    THEN { <<Line(frame, "echo"), Line(Encode(v \o term_chars), "value")>> : v \in DevValues }
    ELSE { <<Line(frame, "ack")>> }

\* Lines emitted before the latest frame are no answer to it.
Stale(q) == [i \in DOMAIN q |-> [q[i] EXCEPT !.own = FALSE]]

RECURSIVE Produced(_)
Produced(p) ==
    IF p = <<>> THEN 0
    ELSE (IF Head(p).k = "write" THEN LinesFor(Head(p).data) ELSE 0) + Produced(Tail(p))

RECURSIVE Consumed(_)
Consumed(p) ==
    IF p = <<>> THEN 0
    ELSE (IF Head(p).k = "read" THEN 1 ELSE 0) + Consumed(Tail(p))

\* Lines that will be left unread once the steps p have run without a timeout.
SkewAfter(p) == Len(rx) + Len(dev) + Produced(p) - Consumed(p)

-----------------------------------------------------------------------------
(* Initial state: __init__ opens the port (serial.Serial( port, ... )).      *)

NoFrames == [done |-> FALSE, frames |-> <<>>]

\* The call before the first one: none.
NoCall == [name |-> "__init__", n |-> 0, err |-> ""]

\* The second caller has made no call.
Idle2 == [pc |-> "idle", op |-> C0("__init__"), prog |-> <<>>, wire |-> <<>>, reads |-> <<>>]

\* The stub device starts on grating 1; the port was opened by __init__.
InitHistory ==
    /\ stub = 1
    /\ prev = NoCall
    /\ life = "__init__"
    /\ closes = 0
    /\ lag = 0
    /\ other = Idle2
    /\ bus = <<>>

Init ==
    /\ open = TRUE
    /\ rx = <<>>
    /\ dev = <<>>
    /\ pc = "idle"
    /\ op = C0("__init__")
    /\ prog = <<>>
    /\ io = <<>>
    /\ wire = <<>>
    /\ reads = <<>>
    /\ result = VNone
    /\ clean = TRUE
    /\ qa = <<>> /\ qb = <<>>
    /\ fa = NoFrames /\ fb = NoFrames
    /\ InitHistory

wireVars == <<qa, qb, fa, fb>>

historyVars == <<stub, prev, life, closes, lag, other, bus>>

\* A step that none of the stub device, the histories and the second caller takes part in.
Quiet == UNCHANGED historyVars

-----------------------------------------------------------------------------
(* Calling a method *)

\* Every call the caller may make, with its inputs.
AllCalls ==
    {Call("write", s, <<>>, 0, NoneArg, FALSE) : s \in RawMsgs}
    \cup {Call("command", c[1], c[2], 0, NoneArg, FALSE) : c \in RawCommands}
    \cup {Call("query", s, <<>>, 0, NoneArg, FALSE) : s \in RawMsgs}
    \cup {C0(n) : n \in {"read", "info", "position", "abort", "grating", "shuttered", "outport"}}
    \cup {Call("goto", <<>>, <<>>, nm, NoneArg, FALSE) : nm \in Wavelengths}
    \cup {Call("set_grating", <<>>, <<>>, g, NoneArg, FALSE) : g \in Gratings}
    \cup {Call("shutter", <<>>, <<>>, 0, NoneArg, b) : b \in BOOLEAN}
    \cup {Call("set_outport", <<>>, <<>>, n, NoneArg, FALSE) : n \in Ports}
    \cup {Call("slit_width", <<>>, <<>>, n, w, FALSE) : n \in Slits, w \in Widths}

CallsTable == [name \in {c.name : c \in AllCalls} |-> {c \in AllCalls : c.name = name}]

Calls(name) == CallsTable[name]

\* Program, tabulated over the calls.
ProgramOf == [c \in AllCalls |-> Program(c)]

\* Lines a call adds to those left unread, when no read of it times out.
SkewOf == [c \in AllCalls |-> Produced(ProgramOf[c]) - Consumed(ProgramOf[c])]

\* Entering a method: nothing read or written yet.
Called(c) ==
    /\ pc' = "run"
    /\ op' = c
    /\ io' = <<>>
    /\ wire' = <<>>
    /\ reads' = <<>>
    /\ result' = VNone
    /\ clean' = (clean /\ c.name \notin {"write", "read"})
    /\ UNCHANGED <<open, rx, dev, wireVars>>

\* A call is made only if the lines it leaves unread stay within MaxSkew; a
\* write() on a drained line is always allowed (the caller has to read its answer).
Invoke(c) ==
    LET p == ProgramOf[c]
    IN  /\ pc \in {"idle", "done"}
        /\ \/ Len(rx) + Len(dev) + SkewOf[c] <= MaxSkew
           \/ c.name = "write" /\ rx = <<>> /\ dev = <<>>
        /\ prog' = p
        /\ Called(c)

CallWrite   == \E c \in Calls("write") : Invoke(c)
CallRead    == \E c \in Calls("read") : Invoke(c)
CallCommand == \E c \in Calls("command") : Invoke(c)
CallQuery   == \E c \in Calls("query") : Invoke(c)
Info        == \E c \in Calls("info") : Invoke(c)
Position    == \E c \in Calls("position") : Invoke(c)
Goto        == \E c \in Calls("goto") : Invoke(c)
Abort       == \E c \in Calls("abort") : Invoke(c)
Grating     == \E c \in Calls("grating") : Invoke(c)
SetGrating  == \E c \in Calls("set_grating") : Invoke(c)
Shuttered   == \E c \in Calls("shuttered") : Invoke(c)
Shutter     == \E c \in Calls("shutter") : Invoke(c)
Outport     == \E c \in Calls("outport") : Invoke(c)
SetOutport  == \E c \in Calls("set_outport") : Invoke(c)
SlitWidth   == \E c \in Calls("slit_width") : Invoke(c)

\* The call ends with an exception.
Raise(e) ==
    /\ result' = Raised(e)
    /\ prog' = <<>>
    /\ pc' = "done"

Running(k) == pc = "run" /\ prog # <<>> /\ Head(prog).k = k

IO(k, n) == [k |-> k, n |-> n]

-----------------------------------------------------------------------------
(* self._com.write( msg ), line 100 *)

\* write() that empties the input buffer (reset_input_buffer) before it sends
TransportWrite_flushing ==
    /\ Running("write")
    /\ open
    /\ \E ans \in DeviceAnswers(Head(prog).data) :
          dev' = Stale(dev) \o ans
    /\ rx' = <<>>
    /\ wire' = Append(wire, Head(prog).data)
    /\ io' = Append(io, IO("w", Len(Head(prog).data)))
    /\ prog' = Tail(prog)
    /\ UNCHANGED <<open, pc, op, reads, result, clean, wireVars>>

\* The port is open and takes the bytes; the device answers the frame.
TransportWrite ==
    /\ Running("write")
    /\ open
    /\ \E ans \in DeviceAnswers(Head(prog).data) :
          dev' = Stale(dev) \o ans
    /\ rx' = Stale(rx)
    /\ wire' = Append(wire, Head(prog).data)
    /\ io' = Append(io, IO("w", Len(Head(prog).data)))
    /\ prog' = Tail(prog)
    /\ UNCHANGED <<open, pc, op, reads, result, clean, wireVars>>

\* The port is closed: pyserial raises PortNotOpenError.
TransportWriteClosed ==
    /\ Running("write")
    /\ ~open
    /\ io' = Append(io, IO("w", 0))
    /\ Raise("PortNotOpenError")
    /\ UNCHANGED <<open, rx, dev, op, wire, reads, clean, wireVars>>

\* A failed write whose exception is caught and dropped: the method carries on.
TransportWriteFail_swallowed ==
    /\ Running("write")
    /\ open
    /\ io' = Append(io, IO("w", 0))
    /\ prog' = Tail(prog)
    /\ UNCHANGED <<open, rx, dev, pc, op, wire, reads, result, clean, wireVars>>

\* The write fails (the port vanished): pyserial raises SerialException.
TransportWriteFail ==
    /\ Running("write")
    /\ open
    /\ io' = Append(io, IO("w", 0))
    /\ Raise("SerialException")
    /\ UNCHANGED <<open, rx, dev, op, wire, reads, clean, wireVars>>

-----------------------------------------------------------------------------
(* self._com.read_until( b'\r\n' ) and resp.decode, lines 109-111 *)

ReadResult(text, kind, own) == [text |-> text, kind |-> kind, own |-> own]

\* A line is in the input buffer: read_until returns it, terminator included.
TransportRead ==
    /\ Running("read")
    /\ open
    /\ rx # <<>>
    /\ reads' = Append(reads, ReadResult(Decode(Head(rx).bytes), Head(rx).kind, Head(rx).own))
    /\ io' = Append(io, IO("r", Len(Head(rx).bytes)))
    /\ rx' = Tail(rx)
    /\ prog' = Tail(prog)
    /\ UNCHANGED <<open, dev, pc, op, wire, result, clean, wireVars>>

\* No line arrives before the timeout: read_until returns b'' and raises nothing.
TransportReadTimeout ==
    /\ Running("read")
    /\ open
    /\ rx = <<>>
    /\ SkewAfter(Tail(prog)) <= MaxSkew
    /\ reads' = Append(reads, ReadResult(Decode(<<>>), "none", FALSE))
    /\ io' = Append(io, IO("r", 0))
    /\ prog' = Tail(prog)
    /\ clean' = FALSE
    /\ UNCHANGED <<open, rx, dev, pc, op, wire, result, wireVars>>

\* The port is closed: pyserial raises PortNotOpenError.
TransportReadClosed ==
    /\ Running("read")
    /\ ~open
    /\ io' = Append(io, IO("r", 0))
    /\ Raise("PortNotOpenError")
    /\ UNCHANGED <<open, rx, dev, op, wire, reads, clean, wireVars>>

\* msg[ -1 ] of an empty message, line 136
RaiseInMethod ==
    /\ Running("raise")
    /\ Raise(Head(prog).err)
    /\ UNCHANGED <<open, rx, dev, op, io, wire, reads, clean, wireVars>>

\* The method's return statement.
Return ==
    /\ pc = "run"
    /\ prog = <<>>
    /\ result' = ReturnOf(op, io, reads)
    /\ pc' = "done"
    /\ UNCHANGED <<open, rx, dev, op, prog, io, wire, reads, clean, wireVars>>

-----------------------------------------------------------------------------
(* The serial line and the port's life cycle *)

\* A line the device sends of its own accord (a status or error report).
StatusLine == <<"E","0","5">>

\* The device emits it whatever the driver is doing; it answers no frame.
DeviceSpontaneous ==
    /\ SkewAfter(prog) + 1 <= MaxSkew
    /\ dev' = Append(dev, [bytes |-> Encode(StatusLine \o term_chars), kind |-> "status", own |-> FALSE])
    /\ clean' = FALSE
    /\ UNCHANGED <<open, rx, pc, op, prog, io, wire, reads, result, wireVars>>

\* A line the device emitted arrives; a closed port drops it.
DeviceDeliver ==
    /\ dev # <<>>
    /\ dev' = Tail(dev)
    /\ rx' = IF open THEN Append(rx, Head(dev)) ELSE rx
    /\ UNCHANGED <<open, pc, op, prog, io, wire, reads, result, clean, wireVars>>

Lifecycle(c, r) ==
    /\ pc \in {"idle", "done"}
    /\ pc' = "done"
    /\ op' = c
    /\ prog' = <<>>
    /\ io' = <<>>
    /\ wire' = <<>>
    /\ reads' = <<>>
    /\ result' = r
    /\ UNCHANGED <<dev, clean, wireVars>>

\* connect() that returns without opening the port
Connect_without_open ==
    /\ Lifecycle(C0("connect"), IF open THEN Raised("SerialException") ELSE VNone)
    /\ open' = open
    /\ rx' = rx

\* def connect( self ): self._com.open(); pyserial refuses to open an open port
Connect ==
    /\ Lifecycle(C0("connect"), IF open THEN Raised("SerialException") ELSE VNone)
    /\ open' = TRUE
    /\ rx' = rx

\* connect() on a closed port that cannot be opened (the device node is gone):
\* pyserial raises SerialException and the port stays closed
ConnectFail ==
    /\ ~open
    /\ Lifecycle(C0("connect"), Raised("SerialException"))
    /\ open' = FALSE
    /\ rx' = rx

\* def disconnect( self ): self._com.close(); the input buffer goes with the handle
Disconnect ==
    /\ Lifecycle(C0("disconnect"), VNone)
    /\ open' = FALSE
    /\ rx' = <<>>

\* def __del__( self ): self._com.close()
Del ==
    /\ Lifecycle(C0("__del__"), VNone)
    /\ open' = FALSE
    /\ rx' = <<>>

Next ==
    \/ CallWrite /\ Quiet
    \/ CallRead /\ Quiet
    \/ CallCommand /\ Quiet
    \/ CallQuery /\ Quiet
    \/ Info /\ Quiet
    \/ Position /\ Quiet
    \/ Goto /\ Quiet
    \/ Abort /\ Quiet
    \/ Grating /\ Quiet
    \/ SetGrating /\ Quiet
    \/ Shuttered /\ Quiet
    \/ Shutter /\ Quiet
    \/ Outport /\ Quiet
    \/ SetOutport /\ Quiet
    \/ SlitWidth /\ Quiet
    \/ TransportWrite /\ Quiet
    \/ TransportWriteClosed /\ Quiet
    \/ TransportWriteFail /\ Quiet
    \/ TransportRead /\ Quiet
    \/ TransportReadTimeout /\ Quiet
    \/ TransportReadClosed /\ Quiet
    \/ RaiseInMethod /\ Quiet
    \/ Return /\ Quiet
    \/ DeviceDeliver /\ Quiet
    \/ Connect /\ Quiet
    \/ ConnectFail /\ Quiet
    \/ Disconnect /\ Quiet

Spec == Init /\ [][Next]_vars

-----------------------------------------------------------------------------
(* Framing comparison: two calls of query(), each on a port that takes every *)
(* write; what is compared is the bytes each handed to self._com.write.      *)

WireAlphabet == {"a", "A", "?", " "}

WireExamples ==
    { <<"w","a","v","e">>, <<"W","A","V","E","?">>, <<"W","a","v","e">>, <<"w","a","v","e","?">> }

Msgs == UNION {[1..k -> WireAlphabet] : k \in 0..MaxLen} \cup WireExamples

RECURSIVE Written(_)
Written(p) ==
    IF p = <<>> THEN <<>>
    ELSE (IF Head(p).k = "write" THEN <<Head(p).data>> ELSE <<>>) \o Written(Tail(p))

InitWire ==
    /\ open = TRUE
    /\ rx = <<>>
    /\ dev = <<>>
    /\ pc = "idle"
    /\ op = C0("__init__")
    /\ prog = <<>>
    /\ io = <<>>
    /\ wire = <<>>
    /\ reads = <<>>
    /\ result = VNone
    /\ clean = TRUE
    /\ qa \in Msgs /\ qb \in Msgs
    /\ fa = NoFrames /\ fb = NoFrames
    /\ InitHistory

mainVars == <<open, rx, dev, pc, op, prog, io, wire, reads, result, clean>>

QueryA ==
    /\ ~fa.done
    /\ fa' = [done |-> TRUE, frames |-> Written(query(qa))]
    /\ UNCHANGED <<mainVars, qa, qb, fb, historyVars>>

QueryB ==
    /\ fa.done
    /\ ~fb.done
    /\ fb' = [done |-> TRUE, frames |-> Written(query(qb))]
    /\ UNCHANGED <<mainVars, qa, qb, fa, historyVars>>

NextWire == QueryA \/ QueryB

SpecWire == InitWire /\ [][NextWire]_vars

-----------------------------------------------------------------------------
(* A stub device that answers every frame in time and remembers the grating  *)
(* it was told to use: GRAT? is answered with "<number>,<lines>,<label>",    *)
(* SHUTTER? with one of ShutterValues, any other query with one of DevValues.*)

ShutterValues == { <<"C">>, <<"O">>, <<"c">>, <<>> }

GratFrame(g) == Encode(<<"G","R","A","T"," ">> \o IntStr(g) \o term_chars)

StubValues(frame, mem) ==
    LET text == rstrip(Decode(frame))
    IN  IF text = <<"G","R","A","T","?">>
        THEN { IntStr(mem) \o <<",","1","2","0","0",",","B","L">> }
        ELSE IF text = <<"S","H","U","T","T","E","R","?">> THEN ShutterValues
        ELSE DevValues

StubAnswers(frame, mem) ==
    IF IsQueryFrame(frame)
    THEN { <<Line(frame, "echo"), Line(Encode(v \o term_chars), "value")>> :
               v \in StubValues(frame, mem) }
    ELSE { <<Line(frame, "ack")>> }

\* The grating the stub is on once it has taken the frame.
StubTold(frame, mem) ==
    IF \E g \in Gratings : frame = GratFrame(g)
    THEN CHOOSE g \in Gratings : frame = GratFrame(g)
    ELSE mem

\* self._com.write( msg ), line 100, with the stub device on the line
StubWrite ==
    /\ Running("write")
    /\ open
    /\ \E ans \in StubAnswers(Head(prog).data, stub) :
          dev' = Stale(dev) \o ans
    /\ stub' = StubTold(Head(prog).data, stub)
    /\ rx' = Stale(rx)
    /\ wire' = Append(wire, Head(prog).data)
    /\ io' = Append(io, IO("w", Len(Head(prog).data)))
    /\ prog' = Tail(prog)
    /\ UNCHANGED <<open, pc, op, reads, result, clean, wireVars, prev, life, closes, lag, other, bus>>

\* The caller makes its next call: the one before it goes into the history.
Noted ==
    /\ prev' = [name |-> op.name, n |-> op.n, err |-> result.err]
    /\ UNCHANGED <<stub, life, closes, lag, other, bus>>

NextStub ==
    \/ CallQuery /\ Noted
    \/ Info /\ Noted
    \/ Position /\ Noted
    \/ Goto /\ Noted
    \/ Abort /\ Noted
    \/ Grating /\ Noted
    \/ SetGrating /\ Noted
    \/ Shuttered /\ Noted
    \/ Shutter /\ Noted
    \/ Outport /\ Noted
    \/ SetOutport /\ Noted
    \/ SlitWidth /\ Noted
    \/ StubWrite
    \/ TransportRead /\ Quiet
    \/ RaiseInMethod /\ Quiet
    \/ Return /\ Quiet
    \/ DeviceDeliver /\ Quiet

SpecStub == Init /\ [][NextStub]_vars

-----------------------------------------------------------------------------
(* The life of one Monochromator: construction, connect() and disconnect()   *)
(* in any order between its calls, and __del__ when it is torn down.  The    *)
(* device answers in time; what is recorded is the most recent life-cycle    *)
(* call and the number of self._com.close() calls made so far.               *)

Alive == life # "__del__"

\* A life-cycle call l that calls self._com.close() k times.
Lived(l, k) ==
    /\ life' = l
    /\ closes' = closes + k
    /\ UNCHANGED <<stub, prev, lag, other, bus>>

NextLife ==
    \/ Alive /\ CallCommand /\ Quiet
    \/ Alive /\ CallQuery /\ Quiet
    \/ Alive /\ Info /\ Quiet
    \/ Alive /\ Position /\ Quiet
    \/ Alive /\ Goto /\ Quiet
    \/ Alive /\ Abort /\ Quiet
    \/ Alive /\ Grating /\ Quiet
    \/ Alive /\ SetGrating /\ Quiet
    \/ Alive /\ Shuttered /\ Quiet
    \/ Alive /\ Shutter /\ Quiet
    \/ Alive /\ Outport /\ Quiet
    \/ Alive /\ SetOutport /\ Quiet
    \/ Alive /\ SlitWidth /\ Quiet
    \/ Alive /\ TransportWrite /\ Quiet
    \/ Alive /\ TransportWriteClosed /\ Quiet
    \/ Alive /\ TransportWriteFail /\ Quiet
    \/ Alive /\ TransportRead /\ Quiet
    \/ Alive /\ RaiseInMethod /\ Quiet
    \/ Alive /\ Return /\ Quiet
    \/ Alive /\ DeviceDeliver /\ Quiet
    \/ Alive /\ Connect /\ Lived("connect", 0)
    \/ Alive /\ ConnectFail /\ Lived("connect failed", 0)
    \/ Alive /\ closes < MaxCloses /\ Disconnect /\ Lived("disconnect", 1)
    \/ Alive /\ Del /\ Lived("__del__", 1)

SpecLife == Init /\ [][NextLife]_vars

-----------------------------------------------------------------------------
(* Two callers (threads) share one Monochromator and each makes one call.    *)
(* The class holds no lock, so the threads may be switched between any two   *)
(* calls of self._com.write / self._com.read_until; every such call is       *)
(* recorded in `bus` with the caller that made it.                           *)

\* The calls the two callers draw from: one query or one command each.
SharedCalls == Calls("info") \cup Calls("position") \cup Calls("shuttered") \cup Calls("abort")

Logged(who, k) ==
    /\ bus' = Append(bus, [who |-> who, k |-> k])
    /\ UNCHANGED <<stub, prev, life, closes, lag, other>>

FirstCall(c) == pc = "idle" /\ Invoke(c) /\ Quiet

\* The second caller enters a method.
OtherInvoke ==
    /\ other.pc = "idle"
    /\ \E c \in SharedCalls :
          other' = [pc |-> "run", op |-> c, prog |-> ProgramOf[c], wire |-> <<>>, reads |-> <<>>]
    /\ UNCHANGED <<mainVars, wireVars, stub, prev, life, closes, lag, bus>>

OtherRunning(k) == other.pc = "run" /\ other.prog # <<>> /\ Head(other.prog).k = k

\* self._com.write( msg ), line 100, made by the second caller
OtherWrite ==
    /\ OtherRunning("write")
    /\ open
    /\ \E ans \in DeviceAnswers(Head(other.prog).data) :
          dev' = Stale(dev) \o ans
    /\ rx' = Stale(rx)
    /\ other' = [other EXCEPT !.wire = Append(@, Head(other.prog).data), !.prog = Tail(@)]
    /\ bus' = Append(bus, [who |-> 2, k |-> "w"])
    /\ UNCHANGED <<open, pc, op, prog, io, wire, reads, result, clean, wireVars,
                   stub, prev, life, closes, lag>>

\* self._com.read_until( b'\r\n' ), line 109, made by the second caller
OtherRead ==
    /\ OtherRunning("read")
    /\ open
    /\ rx # <<>>
    /\ other' = [other EXCEPT
                     !.reads = Append(@, ReadResult(Decode(Head(rx).bytes), Head(rx).kind, Head(rx).own)),
                     !.prog = Tail(@)]
    /\ rx' = Tail(rx)
    /\ bus' = Append(bus, [who |-> 2, k |-> "r"])
    /\ UNCHANGED <<open, dev, pc, op, prog, io, wire, reads, result, clean, wireVars,
                   stub, prev, life, closes, lag>>

\* The second caller's method returns.
OtherReturn ==
    /\ other.pc = "run"
    /\ other.prog = <<>>
    /\ other' = [other EXCEPT !.pc = "done"]
    /\ UNCHANGED <<mainVars, wireVars, stub, prev, life, closes, lag, bus>>

NextShared ==
    \/ \E c \in SharedCalls : FirstCall(c)
    \/ TransportWrite /\ Logged(1, "w")
    \/ TransportRead /\ Logged(1, "r")
    \/ Return /\ Quiet
    \/ OtherInvoke
    \/ OtherWrite
    \/ OtherRead
    \/ OtherReturn
    \/ DeviceDeliver /\ Quiet

SpecShared == Init /\ [][NextShared]_vars

-----------------------------------------------------------------------------
(* A line on which device lines may be pending when a call starts: a read    *)
(* may time out (its line arrives late) and the device may send a line of    *)
(* its own accord.  The caller uses command(), query() and the high-level    *)
(* methods on a port that stays open; what is recorded is the number of      *)
(* device lines unread when each call was made.                              *)

Lagged ==
    /\ lag' = Len(rx) + Len(dev)
    /\ UNCHANGED <<stub, prev, life, closes, other, bus>>

NextStale ==
    \/ CallCommand /\ Lagged
    \/ CallQuery /\ Lagged
    \/ Info /\ Lagged
    \/ Position /\ Lagged
    \/ Goto /\ Lagged
    \/ Abort /\ Lagged
    \/ Grating /\ Lagged
    \/ SetGrating /\ Lagged
    \/ Shuttered /\ Lagged
    \/ Shutter /\ Lagged
    \/ Outport /\ Lagged
    \/ SetOutport /\ Lagged
    \/ SlitWidth /\ Lagged
    \/ TransportWrite /\ Quiet
    \/ TransportWriteFail /\ Quiet
    \/ TransportRead /\ Quiet
    \/ TransportReadTimeout /\ Quiet
    \/ RaiseInMethod /\ Quiet
    \/ Return /\ Quiet
    \/ DeviceDeliver /\ Quiet
    \/ DeviceSpontaneous /\ Quiet

SpecStale == Init /\ [][NextStale]_vars

-----------------------------------------------------------------------------
(* Properties *)

Kinds(calls) == [i \in DOMAIN calls |-> calls[i].k]

Done(name) == pc = "done" /\ op.name = name

\* pyserial's errors: both are serial.SerialException
TransportErrors == {"PortNotOpenError", "SerialException"}

CRLF == <<13, 10>>

EndsInCRLF(frame) ==
    Len(frame) >= 2 /\ SubSeq(frame, Len(frame) - 1, Len(frame)) = CRLF

TimedOut == \E i \in DOMAIN reads : reads[i].kind = "none"

\* s with its trailing whitespace characters removed is r
StrippedOf(s, r) ==
    /\ Len(r) <= Len(s)
    /\ r = SubSeq(s, 1, Len(r))
    /\ (r # <<>> => r[Len(r)] \notin Whitespace)
    /\ \A i \in (Len(r) + 1)..Len(s) : s[i] \in Whitespace

\* C1: every call of query(msg) that no Transport error ends makes exactly one
\* Transport write and then exactly two Transport reads, whatever msg is
\* (the empty message included).
C1_QueryOneWriteTwoReads ==
    (Done("query") /\ result.err \notin TransportErrors)
        => Kinds(io) = <<"w", "r", "r">>

\* C2: as long as the device has answered every frame in time and only balanced
\* calls were made, no device line is left unread when a call has ended, every
\* query's first read is the echo of its own frame and its second read is the
\* value for its own frame, and the Response holds them in that order.
QueryReadsOwn(base) ==
    /\ Len(reads) = base + 2
    /\ reads[base + 1].kind = "echo" /\ reads[base + 1].own
    /\ Encode(reads[base + 1].text) = wire[Len(wire)]
    /\ reads[base + 2].kind = "value" /\ reads[base + 2].own

QueryBase == IF op.name = "goto" \/ (op.name = "slit_width" /\ op.w.t # "none") THEN 1 ELSE 0

C2_StreamSync ==
    clean =>
        /\ pc \in {"idle", "done"} => (rx = <<>> /\ dev = <<>>)
        /\ ( /\ pc = "done"
             /\ op.name \in {"query", "info", "position", "goto", "grating", "shuttered",
                             "outport", "slit_width"}
             /\ result.err \notin TransportErrors \cup {"IndexError"} )
           => /\ QueryReadsOwn(QueryBase)
              /\ op.name = "query" =>
                    /\ result.t = "Response"
                    /\ StrippedOf(reads[1].text, result.s)
                    /\ StrippedOf(reads[2].text, result.s2)

C2_Witness ==
    /\ clean
    /\ Done("goto")
    /\ result.t = "float"
    /\ Len(reads) = 3
    /\ reads[3].kind = "value"

\* C3: a high-level method called while the port is closed fails with
\* NotConnectedError and makes no Transport write and no Transport read.
C3_NotConnectedNoIO ==
    (pc = "done" /\ op.name \in HighLevel /\ ~open)
        => (result.err = "NotConnectedError" /\ io = <<>>)

\* C4: a call in which a read timed out ends with TimeoutError, and the read
\* that timed out is its last Transport call.
C4_TimeoutRaises ==
    (pc = "done" /\ TimedOut)
        => /\ result.err = "TimeoutError"
           /\ reads[Len(reads)].kind = "none"
           /\ \A i \in 1..(Len(reads) - 1) : reads[i].kind # "none"

\* C5: write(s) hands the Transport, in one write, the bytes of uppercase(s)
\* followed by CR LF and returns the count the Transport reported; every frame
\* any call writes ends in CR LF and holds no lowercase letter.
C5_WriteFrames ==
    /\ \A i \in DOMAIN wire :
          /\ EndsInCRLF(wire[i])
          /\ \A j \in DOMAIN wire[i] : wire[i][j] \notin 97..122
    /\ (Done("write") /\ result.err = "")
          => /\ wire = << Encode(Upper(op.s)) \o CRLF >>
             /\ Kinds(io) = <<"w">>
             /\ result.t = "int"
             /\ result.n = io[1].n
             /\ result.n = Len(op.s) + 2

C5_Witness ==
    /\ Done("write")
    /\ op.s = <<"G","o","?">>
    /\ result.n = 5
    /\ wire = << <<71, 79, 63, 13, 10>> >>

\* C6: command(name, *args) makes exactly one Transport write and then exactly
\* one Transport read, and returns the line read with its trailing whitespace
\* and terminator stripped; it ends otherwise only when the write failed.
C6_CommandOneWriteOneRead ==
    (pc = "done" /\ op.name \in {"command", "abort", "set_grating", "shutter", "set_outport"})
        => IF result.err = ""
           THEN /\ Kinds(io) = <<"w", "r">>
                /\ Len(wire) = 1
                /\ Len(reads) = 1
                /\ op.name = "command" =>
                      (result.t = "str" /\ StrippedOf(reads[1].text, result.s))
           ELSE /\ result.err \in TransportErrors
                /\ Kinds(io) = <<"w">>

C6_Witness ==
    /\ Done("command")
    /\ op.args = <<>>
    /\ result.err = ""
    /\ Len(reads) = 1
    /\ reads[1].text = <<"A","B","O","R","T"," ","\r","\n">>
    /\ result.s = <<"A","B","O","R","T">>

\* C7: the text command(name, *args) frames is the name and the string form of
\* each argument joined with single spaces and nothing else, so that abort()
\* writes ABORT CR LF.
C7_JoinedWithSingleSpaces ==
    ( /\ pc = "done"
      /\ op.name \in {"command", "abort"}
      /\ wire # <<>> )
        => LET name  == IF op.name = "abort" THEN <<"a","b","o","r","t">> ELSE op.s
               parts == <<name>> \o [i \in DOMAIN op.args |-> str(op.args[i])]
           IN  wire[1] = Encode(Upper(join(<<" ">>, parts))) \o CRLF

\* C8: goto(nm) writes GOWAVE <nm to 3 decimals>, reads once, writes WAVE?,
\* reads twice, and returns the value parsed from the second line of the WAVE?
\* query, which is the position the device reports.
GowaveText ==
    [nm \in Wavelengths |->
        CASE nm = 600000 -> <<"6","0","0",".","0","0","0">>
          [] nm = 550500 -> <<"5","5","0",".","5","0","0">>]

C8_Goto ==
    (Done("goto") /\ result.err \notin TransportErrors)
        => /\ Kinds(io) = <<"w", "r", "w", "r", "r">>
           /\ wire = << Encode(<<"G","O","W","A","V","E"," ">> \o GowaveText[op.n]) \o CRLF,
                        <<87, 65, 86, 69, 63, 13, 10>> >>
           /\ LET second == float(rstrip(reads[3].text))
              IN  IF second.ok
                  THEN result.err = "" /\ result.t = "float" /\ result.n = second.n
                  ELSE result.err = "ValueError"
           /\ clean => (reads[3].kind = "value" /\ reads[3].own)

C8_Witness ==
    /\ Done("goto")
    /\ op.n = 600000
    /\ clean
    /\ Len(reads) = 3
    /\ reads[3].text = <<"5","9","9",".","9","8","4","\r","\n">>
    /\ result.t = "float"
    /\ result.n = 599984

\* C9: slit_width(slit, None) makes one write, the query frame
\* SLIT<slit>MICRONS?, and two reads; slit_width(slit, w) first writes
\* SLIT<slit>MICRONS <w> and reads once, then makes the same query; the result
\* is the integer parsed from the query's response line.
SlitFrame(slit, tail) ==
    Encode(<<"S","L","I","T">> \o IntStr(slit) \o <<"M","I","C","R","O","N","S">> \o tail) \o CRLF

C9_SlitWidth ==
    (Done("slit_width") /\ result.err \notin TransportErrors)
        => /\ IF op.w.t = "none"
              THEN /\ Kinds(io) = <<"w", "r", "r">>
                   /\ wire = << SlitFrame(op.n, <<"?">>) >>
              ELSE /\ Kinds(io) = <<"w", "r", "w", "r", "r">>
                   /\ wire = << SlitFrame(op.n, <<" ">> \o IntStr(op.w.n)),
                                SlitFrame(op.n, <<"?">>) >>
           /\ LET line == reads[Len(reads)].text
                  body == SubSeq(line, 1, Len(line) - (IF Len(line) >= 2 THEN 2 ELSE 0))
              IN  IF AllDigits(body)
                  THEN result.err = "" /\ result.t = "int" /\ IntStr(result.n) = body
                  ELSE result.err = "ValueError"

C9_Witness ==
    /\ Done("slit_width")
    /\ op.w = IntArg(0)
    /\ Kinds(io) = <<"w", "r", "w", "r", "r">>
    /\ result.t = "int"
    /\ result.n = 50

\* C10 as stated: query(msg), query(uppercase(msg)) and, when msg does not end
\* in '?', query(msg + '?') write the same single frame for any non-empty msg,
\* and that frame ends in exactly one '?' before the terminator.
SameQuery(a, b) ==
    LET ua == Upper(a)
        ub == Upper(b)
    IN  \/ ua = ub
        \/ a[Len(a)] # "?" /\ ub = ua \o <<"?">>
        \/ b[Len(b)] # "?" /\ ua = ub \o <<"?">>

WroteSame ==
    /\ Len(fa.frames) = 1
    /\ Len(fb.frames) = 1
    /\ fa.frames = fb.frames

\* the frame's bytes before CR LF end in '?'
EndsInQ(frame) ==
    /\ EndsInCRLF(frame)
    /\ Len(frame) >= 3
    /\ frame[Len(frame) - 2] = 63

EndsInOneQ(frame) ==
    /\ EndsInQ(frame)
    /\ (Len(frame) >= 4 => frame[Len(frame) - 3] # 63)

C10_ExactlyOneQ ==
    (fa.done /\ fb.done /\ qa # <<>> /\ qb # <<>> /\ SameQuery(qa, qb))
        => /\ WroteSame
           /\ EndsInOneQ(fa.frames[1])

\* C10 as amended: the same three calls write the same single frame, which
\* ends in '?' before the terminator, and in exactly one '?' unless msg itself
\* ends in two.
EndsInQQ(m) == Len(m) >= 2 /\ m[Len(m)] = "?" /\ m[Len(m) - 1] = "?"

C10_SameFrame ==
    (fa.done /\ fb.done /\ qa # <<>> /\ qb # <<>> /\ SameQuery(qa, qb))
        => /\ WroteSame
           /\ EndsInQ(fa.frames[1])
           /\ ~EndsInQQ(qa) => EndsInOneQ(fa.frames[1])

C10_Witness ==
    /\ fa.done /\ fb.done
    /\ qa = <<"w","a","v","e">>
    /\ qb = <<"W","A","V","E","?">>
    /\ fa.frames = << <<87, 65, 86, 69, 63, 13, 10>> >>
    /\ fb.frames = fa.frames

\* str.split( sep ) with a one-character separator
RECURSIVE split(_, _)
split(s, sep) ==
    IF \A i \in DOMAIN s : s[i] # sep THEN <<s>>
    ELSE LET k == CHOOSE i \in DOMAIN s : s[i] = sep /\ \A j \in 1..(i - 1) : s[j] # sep
         IN  <<SubSeq(s, 1, k - 1)>> \o split(SubSeq(s, k + 1, Len(s)), sep)

\* C11: a grating() call that follows a set_grating(n) call, against a device
\* that remembers the grating it was told, completes without an exception and
\* the number field of what it returns is str(n).
C11_GratingRoundTrip ==
    (Done("grating") /\ prev.name = "set_grating" /\ prev.err = "")
        => /\ result.err = ""
           /\ result.s = IntStr(prev.n)

\* C12: grating() splits the response field of its query on ','; with exactly
\* three fields it returns them as number, lines and label, and with any other
\* number of fields it ends with a parse error.
ParseErrors == {"ValueError", "IndexError"}

C12_GratingThreeFields ==
    (Done("grating") /\ Len(reads) = 2)
        => LET fields == split(rstrip(reads[2].text), ",")
           IN  IF Len(fields) = 3
               THEN result.err = "" /\ result.s = fields[1]
               ELSE result.err \in ParseErrors

\* C13: over the life of a Monochromator the port is closed exactly once: when
\* it has been torn down, self._com.close() has been called one time in all,
\* whether or not disconnect() was called before.
C13_ClosedOnce ==
    life = "__del__" => closes = 1

\* C14: the Transport calls of two calls made concurrently on one Monochromator
\* do not interleave (no write or read of one caller falls between two
\* Transport calls of the other), and the first line each caller reads is the
\* echo of the frame it wrote itself.
C14_Serialized ==
    /\ \A i, j, k \in DOMAIN bus :
          (i < j /\ j < k /\ bus[i].who = bus[k].who) => bus[j].who = bus[i].who
    /\ (pc = "done" /\ reads # <<>> /\ wire # <<>>) => Encode(reads[1].text) = wire[1]
    /\ (other.pc = "done" /\ other.reads # <<>> /\ other.wire # <<>>)
          => Encode(other.reads[1].text) = other.wire[1]

FailedWrite(e) == e.k = "w" /\ e.n = 0

\* C15: a command, a query or a high-level call in which a Transport write
\* failed has ended with the Transport's error having made exactly one write
\* attempt and no read.
C15_OneWriteZeroReads ==
    (pc = "done" /\ io # <<>> /\ FailedWrite(io[Len(io)]))
        => /\ result.err \in TransportErrors
           /\ Kinds(io) = <<"w">>
           /\ reads = <<>>

\* C15 as amended: a Transport write that fails ends the call at once with the
\* Transport's error: the failed attempt is the last Transport call of the
\* call (no retry, no read after it), the command or query in which it failed
\* has made that one write attempt and no read, and a goto or a slit_width
\* with a width whose first write failed has written nothing and read
\* nothing, so its follow-up query was not issued; when it is the follow-up
\* query's write that fails, the call has by then made the write and the read
\* of its command.

C15_NoRetryNoRead ==
    /\ \A i \in DOMAIN io :
          FailedWrite(io[i]) =>
              /\ i = Len(io)
              /\ pc = "done"
              /\ result.err \in TransportErrors
    /\ (pc = "done" /\ io # <<>> /\ FailedWrite(io[Len(io)])) =>
          /\ \/ Kinds(io) = <<"w">>
             \/ QueryBase = 1 /\ Kinds(io) = <<"w", "r", "w">>
          /\ Len(wire) = Len(io) - Len(reads) - 1
          /\ Len(io) = 1 => (wire = <<>> /\ reads = <<>>)

C15_Witness ==
    /\ Done("goto")
    /\ open
    /\ Len(io) = 1 /\ FailedWrite(io[1])
    /\ result.err = "SerialException"
    /\ wire = <<>> /\ reads = <<>>

\* C16: shuttered() makes one query, of the frame SHUTTER?, and returns a
\* boolean that is true exactly when the response line, trailing whitespace
\* removed, is the one character C; for the empty line, for c, for O it
\* returns false and raises nothing.
ShutterQuery == Encode(<<"S","H","U","T","T","E","R","?">> \o term_chars)

C16_Shuttered ==
    (Done("shuttered") /\ result.err \notin TransportErrors)
        => /\ Kinds(io) = <<"w", "r", "r">>
           /\ wire = <<ShutterQuery>>
           /\ result.err = ""
           /\ result.t = "bool"
           /\ result.b <=> StrippedOf(reads[2].text, <<"C">>)

C16_Witness ==
    /\ Done("shuttered")
    /\ Len(reads) = 2
    /\ reads[2].text = <<"c">> \o term_chars
    /\ result = VBool(FALSE)

\* C17: the port is open after construction; disconnect() closes it and
\* raises nothing, on a port already closed too; connect() opens it again; no
\* other call opens or closes it: until the Monochromator is torn down the
\* port is open exactly when the most recent life-cycle call was the
\* construction or a connect() (one that pyserial did not fail to open).
C17_Lifecycle ==
    /\ Alive => (open <=> life \in {"__init__", "connect"})
    /\ Done("disconnect") => (result.err = "" /\ ~open /\ life = "disconnect")
    /\ (Done("connect") /\ result.err = "") => (open /\ life = "connect")

C17_Witness ==
    /\ Done("info")
    /\ result.err = ""
    /\ life = "connect"
    /\ closes = 2
    /\ open

\* Device lines not yet read.
Pending == Len(rx) + Len(dev)

\* The call has ended and every read of it was made.
Completed == pc = "done" /\ result.err \notin TransportErrors \cup {"IndexError"}

QueryOps ==
    {"query", "info", "position", "goto", "grating", "shuttered", "outport", "slit_width"}

\* The two reads of the call's query were the echo and the value for its own frame.
OwnPair(base) ==
    /\ Len(reads) = base + 2
    /\ reads[base + 1].kind = "echo" /\ reads[base + 1].own
    /\ reads[base + 2].kind = "value" /\ reads[base + 2].own

\* The first reads of the call, as many as there were lines unread when it was
\* called, returned lines that are no answer to its frame (or timed out).
StaleFirst ==
    \A i \in DOMAIN reads : i <= lag => (reads[i].kind = "none" \/ ~reads[i].own)

\* C18: a call made with one or more device lines unread (grating apart, which
\* always raises) reads those lines first, raises no error, leaves at least as
\* many lines unread as it found, and if it is a query its two reads are not
\* the echo and the value for its own frame.
C18_StaleReadsNoError ==
    (Completed /\ lag >= 1 /\ op.name # "grating")
        => /\ StaleFirst
           /\ result.err = ""
           /\ Pending >= lag
           /\ op.name \in QueryOps => ~OwnPair(QueryBase)

\* C18 as amended: a call made with one or more device lines unread reads
\* those lines first, none of its reads raises, it leaves at least as many
\* lines unread as it found, and if it is a query its two reads are not the
\* echo and the value for its own frame; the only exceptions it can end with
\* are the ValueError of position, goto, outport and slit_width parsing the
\* line they were given, and the AttributeError grating always ends with.
C18_StaleStays ==
    (Completed /\ lag >= 1)
        => /\ StaleFirst
           /\ result.err # "" =>
                 \/ op.name \in {"position", "goto", "outport", "slit_width"}
                       /\ result.err = "ValueError"
                 \/ op.name = "grating" /\ result.err = "AttributeError"
           /\ Pending >= lag
           /\ op.name \in QueryOps => ~OwnPair(QueryBase)

C18_Witness ==
    /\ Done("info")
    /\ lag = 1
    /\ Pending = 1
    /\ Len(reads) = 2
    /\ reads[1].kind = "status"
    /\ reads[2].kind = "echo"
    /\ result = VStr(<<"I","N","F","O","?">>)

\* C19: position, goto, outport and slit_width parse only when both lines of
\* their query have been read: a call of them that ends with the parse error
\* has made all its reads, the two of its query being the echo and the value
\* for its own frame, the value is not a number, and no device line is left
\* unread; the call made after it (a query of the empty message apart, which
\* reads nothing) reads its own lines.
ParseOps == {"position", "goto", "outport", "slit_width"}

Numeric(s) == IF op.name \in {"position", "goto"} THEN float(s).ok ELSE int(s).ok

C19_ParseFailureKeepsSync ==
    /\ (pc = "done" /\ op.name \in ParseOps /\ result.err \notin TransportErrors)
          => /\ Kinds(io) = IF QueryBase = 1 THEN <<"w", "r", "w", "r", "r">>
                                              ELSE <<"w", "r", "r">>
             /\ QueryReadsOwn(QueryBase)
             /\ result.err = "ValueError" <=> ~Numeric(rstrip(reads[QueryBase + 2].text))
             /\ rx = <<>> /\ dev = <<>>
    /\ (pc = "done" /\ prev.err = "ValueError" /\ result.err # "IndexError")
          => /\ op.name \in QueryOps => QueryReadsOwn(QueryBase)
             /\ op.name \notin QueryOps =>
                   (Len(reads) = 1 /\ reads[1].kind = "ack" /\ reads[1].own)

C19_Witness ==
    /\ Done("info")
    /\ prev.name = "outport"
    /\ prev.err = "ValueError"
    /\ QueryReadsOwn(0)
    /\ result.err = ""

====
